---- MODULE Spec2Model ----
(***************************************************************************)
(* RoadSMTP (src/src/roadsmtp/smtp.py): the SMTP session of SMTPClient     *)
(* (connect / send / close, the context manager and the module-level       *)
(* send), the reply parser _read_response and the MIME builder             *)
(* _build_message.                                                         *)
(*                                                                         *)
(* Python strings are TLA+ strings (TLC evaluates Len, \o, SubSeq, Head    *)
(* and Tail on them); bytes are sequences of 0..255.  A string literal     *)
(* holds the characters U+0001..U+00FF; the ones with no escape are        *)
(* written as they are, once, in the definitions VT .. NBSP below.         *)
(***************************************************************************)
EXTENDS Integers, Sequences, FiniteSets, TLC

(***************************************************************************)
(* Bounds of the model.                                                    *)
(***************************************************************************)
\* top-level calls the caller makes on the session
MaxCalls == 3
\* the lines of the longest reply a server writes; at end of stream, where
\* _read_response reads empty lines for ever, the model records no more
\* than this many lines
MaxLines == 3

(***************************************************************************)
(* String helpers (Python str operations used by the source).              *)
(***************************************************************************)
\* s[i-1] of Python, 1-based here
Chr(s, i) == SubSeq(s, i, i)

Last(s) == IF Len(s) = 0 THEN "" ELSE Chr(s, Len(s))

EndsWithNewline(s) == Last(s) = "\n"

RECURSIVE RStripCRLF(_)
\* str.rstrip("\r\n"): drops every trailing CR and LF
RStripCRLF(s) ==
    IF Len(s) > 0 /\ Last(s) \in {"\r", "\n"}
    THEN RStripCRLF(SubSeq(s, 1, Len(s) - 1))
    ELSE s

RECURSIVE Join(_, _)
\* sep.join(parts)
Join(sep, parts) ==
    IF Len(parts) = 0 THEN ""
    ELSE IF Len(parts) = 1 THEN parts[1]
    ELSE parts[1] \o sep \o Join(sep, Tail(parts))

\* the white space characters that have no escape: vertical tab (\x0b), the
\* file, group, record and unit separators (\x1c .. \x1f), next line (\x85)
\* and the no-break space (\xa0)
VT == ""
FS == ""
GS == ""
RS == ""
US == ""
NEL == ""
NBSP == " "

\* The characters int() skips around a number: the white space of C (space,
\* \t, \n, \x0b, \f, \r) and the Unicode spaces above U+007F, of which a
\* string here can hold \x85 and \xa0.  int() does not skip \x1c .. \x1f.
\* Above U+00FF, which no string here holds, Python skips the other Unicode
\* spaces and reads the decimal digits of other scripts.
Whitespace == {" ", "\t", "\n", VT, "\f", "\r", NEL, NBSP}

\* the characters of str.isspace(), which str.strip() and str.lstrip() drop
StrWhitespace == Whitespace \cup {FS, GS, RS, US}

RECURSIVE LStrip(_)
\* the leading blanks int() skips
LStrip(s) == IF Len(s) > 0 /\ Chr(s, 1) \in Whitespace THEN LStrip(Tail(s)) ELSE s

RECURSIVE RStrip(_)
\* the trailing blanks int() skips
RStrip(s) ==
    IF Len(s) > 0 /\ Last(s) \in Whitespace
    THEN RStrip(SubSeq(s, 1, Len(s) - 1))
    ELSE s

DigitChars == "0123456789"

IsDigit(c) == \E i \in 1..10 : Chr(DigitChars, i) = c

DigitVal(c) == (CHOOSE i \in 1..10 : Chr(DigitChars, i) = c) - 1

\* digits, with single underscores allowed between digits (Python int literal)
DigitsOK(s) ==
    /\ Len(s) > 0
    /\ IsDigit(Chr(s, 1))
    /\ IsDigit(Last(s))
    /\ \A i \in 1..Len(s) :
          \/ IsDigit(Chr(s, i))
          \/ Chr(s, i) = "_" /\ i > 1 /\ IsDigit(Chr(s, i - 1))

RECURSIVE DigitsVal(_, _)
DigitsVal(s, acc) ==
    IF Len(s) = 0 THEN acc
    ELSE IF Chr(s, 1) = "_" THEN DigitsVal(Tail(s), acc)
    ELSE DigitsVal(Tail(s), acc * 10 + DigitVal(Chr(s, 1)))

\* int(s): surrounding whitespace stripped, an optional sign, decimal digits;
\* anything else is a ValueError (ok = FALSE)
ParseInt(s) ==
    LET t == RStrip(LStrip(s))
        signed == Len(t) > 0 /\ Chr(t, 1) \in {"+", "-"}
        body == IF signed THEN Tail(t) ELSE t
    IN  IF DigitsOK(body)
        THEN [ok |-> TRUE,
              val |-> IF signed /\ Chr(t, 1) = "-"
                      THEN 0 - DigitsVal(body, 0) ELSE DigitsVal(body, 0)]
        ELSE [ok |-> FALSE, val |-> 0]

\* s[:n]
Prefix(s, n) == SubSeq(s, 1, IF Len(s) < n THEN Len(s) ELSE n)

(***************************************************************************)
(* base64.b64encode over bytes, and str.encode() for ASCII text.           *)
(***************************************************************************)
B64Alphabet == "ABCDEFGHIJKLMNOPQRSTUVWXYZabcdefghijklmnopqrstuvwxyz0123456789+/"

B64Char(n) == Chr(B64Alphabet, n + 1)

RECURSIVE b64encode(_)
b64encode(bytes) ==
    IF Len(bytes) = 0 THEN ""
    ELSE IF Len(bytes) = 1 THEN
        B64Char(bytes[1] \div 4) \o B64Char((bytes[1] % 4) * 16) \o "=="
    ELSE IF Len(bytes) = 2 THEN
        B64Char(bytes[1] \div 4)
        \o B64Char((bytes[1] % 4) * 16 + bytes[2] \div 16)
        \o B64Char((bytes[2] % 16) * 4) \o "="
    ELSE
        B64Char(bytes[1] \div 4)
        \o B64Char((bytes[1] % 4) * 16 + bytes[2] \div 16)
        \o B64Char((bytes[2] % 16) * 4 + bytes[3] \div 64)
        \o B64Char(bytes[3] % 64)
        \o b64encode(SubSeq(bytes, 4, Len(bytes)))

\* printable ASCII: codes 32..95 and 97..126 (the backquote, 96, is left out)
AsciiLow == " !\"#$%&'()*+,-./0123456789:;<=>?@ABCDEFGHIJKLMNOPQRSTUVWXYZ[\\]^_"

AsciiHigh == "abcdefghijklmnopqrstuvwxyz{|}~"

\* the byte str.encode() gives for an ASCII character
Ord(c) ==
    IF \E i \in 1..Len(AsciiLow) : Chr(AsciiLow, i) = c
    THEN 31 + (CHOOSE i \in 1..Len(AsciiLow) : Chr(AsciiLow, i) = c)
    ELSE 96 + (CHOOSE i \in 1..Len(AsciiHigh) : Chr(AsciiHigh, i) = c)

RECURSIVE encode(_)
encode(s) == IF Len(s) = 0 THEN <<>> ELSE <<Ord(Chr(s, 1))>> \o encode(Tail(s))

(***************************************************************************)
(* Data model: SMTPConfig, Attachment, Email (dataclasses, lines 25-66).   *)
(* A dict is a sequence of <<key, value>> pairs in insertion order.        *)
(***************************************************************************)
SMTPConfig(host, use_tls, username, password) ==
    [host |-> host, use_tls |-> use_tls, username |-> username,
     password |-> password]

Attachment(filename, content, content_type) ==
    [filename |-> filename, content |-> content, content_type |-> content_type]

DefaultContentType == "application/octet-stream"

Email(to, subject, body, html, from_addr, cc, bcc, reply_to, attachments, headers) ==
    [to |-> to, subject |-> subject, body |-> body, html |-> html,
     from_addr |-> from_addr, cc |-> cc, bcc |-> bcc, reply_to |-> reply_to,
     attachments |-> attachments, headers |-> headers]

\* x or y on strings: the first if it is non-empty
StrOr(x, y) == IF x # "" THEN x ELSE y

(***************************************************************************)
(* MIME builder: _build_message (lines 113-143) over the email package's   *)
(* MIMEText / MIMEMultipart / MIMEBase and Message.as_string.              *)
(* Texts are ASCII, U+0001..U+007F (charset us-ascii, 7bit; the email      *)
(* package encodes any other text, which is not modelled).  The boundary,  *)
(* random in Python, is fixed.                                             *)
(***************************************************************************)
Boundary == "=B="

\* MIMEText(text, subtype)
MIMEText(text, subtype) ==
    [maintype |-> "text", subtype |-> subtype,
     headers |-> << <<"Content-Type", "text/" \o subtype \o "; charset=\"us-ascii\"">>,
                    <<"MIME-Version", "1.0">>,
                    <<"Content-Transfer-Encoding", "7bit">> >>,
     payload |-> text, parts |-> <<>>]

\* MIMEMultipart(subtype): the boundary parameter is added by as_string
MIMEMultipart(subtype) ==
    [maintype |-> "multipart", subtype |-> subtype,
     headers |-> << <<"Content-Type", "multipart/" \o subtype>>,
                    <<"MIME-Version", "1.0">> >>,
     payload |-> "", parts |-> <<>>]

\* msg[key] = value: Message.__setitem__ appends a header, it replaces none
SetHeader(msg, key, value) ==
    [msg EXCEPT !.headers = Append(@, <<key, value>>)]

\* msg.attach(part)
Attach(msg, part) == [msg EXCEPT !.parts = Append(@, part)]

RECURSIVE Find(_, _, _)
\* 1-based index of the first c in s at or after i, 0 if none
Find(s, c, i) ==
    IF i > Len(s) THEN 0
    ELSE IF Chr(s, i) = c THEN i
    ELSE Find(s, c, i + 1)

\* s.split("/", 1)
Split1(s) ==
    LET i == Find(s, "/", 1)
    IN  IF i = 0 THEN <<s>>
        ELSE <<SubSeq(s, 1, i - 1), SubSeq(s, i + 1, Len(s))>>

\* bytes of one line of base64.encodebytes
MAXBINSIZE == 57

RECURSIVE encodebytes(_)
\* base64.encodebytes: a newline-terminated line for every 57 bytes
encodebytes(bytes) ==
    IF Len(bytes) = 0 THEN ""
    ELSE IF Len(bytes) <= MAXBINSIZE THEN b64encode(bytes) \o "\n"
    ELSE b64encode(SubSeq(bytes, 1, MAXBINSIZE)) \o "\n"
         \o encodebytes(SubSeq(bytes, MAXBINSIZE + 1, Len(bytes)))

\* lines 137-140: MIMEBase(type, subtype), set_payload, encode_base64,
\* Content-Disposition
AttachmentPart(att) ==
    LET ct == Split1(att.content_type)
    IN  [maintype |-> ct[1], subtype |-> ct[2],
         headers |-> << <<"Content-Type", att.content_type>>,
                        <<"MIME-Version", "1.0">>,
                        <<"Content-Transfer-Encoding", "base64">>,
                        <<"Content-Disposition",
                          "attachment; filename=" \o att.filename>> >>,
         payload |-> encodebytes(att.content), parts |-> <<>>]

RECURSIVE SetHeaders(_, _)
\* lines 127-128: for key, value in email.headers.items(): msg[key] = value
SetHeaders(msg, hs) ==
    IF Len(hs) = 0 THEN msg
    ELSE SetHeaders(SetHeader(msg, hs[1][1], hs[1][2]), Tail(hs))

RECURSIVE AttachAll(_, _)
\* lines 136-141
AttachAll(msg, atts) ==
    IF Len(atts) = 0 THEN msg
    ELSE AttachAll(Attach(msg, AttachmentPart(atts[1])), Tail(atts))

\* line 137 raises TypeError when a content_type holds no "/"
BuildRaises(email) ==
    \E i \in 1..Len(email.attachments) :
        Len(Split1(email.attachments[i].content_type)) < 2

\* lines 114-117
TopLevel(email) ==
    IF Len(email.attachments) > 0 \/ email.html # ""
    THEN MIMEMultipart(IF email.html # "" THEN "alternative" ELSE "mixed")
    ELSE MIMEText(email.body, "plain")

\* a bug: the blind-copy recipients get a header of their own
WithHeadersAndBcc(msg, email, config) ==
    LET m1 == SetHeader(msg, "Subject", email.subject)
        m2 == SetHeader(m1, "From", StrOr(email.from_addr, config.username))
        m3 == SetHeader(m2, "To", Join(", ", email.to))
        m4 == IF Len(email.cc) > 0 THEN SetHeader(m3, "Cc", Join(", ", email.cc)) ELSE m3
        m5 == IF Len(email.bcc) > 0 THEN SetHeader(m4, "Bcc", Join(", ", email.bcc)) ELSE m4
        m6 == IF email.reply_to # "" THEN SetHeader(m5, "Reply-To", email.reply_to) ELSE m5
    IN  SetHeaders(m6, email.headers)

\* lines 119-128
WithHeaders(msg, email, config) ==
    LET m1 == SetHeader(msg, "Subject", email.subject)
        m2 == SetHeader(m1, "From", StrOr(email.from_addr, config.username))
        m3 == SetHeader(m2, "To", Join(", ", email.to))
        m4 == IF Len(email.cc) > 0 THEN SetHeader(m3, "Cc", Join(", ", email.cc)) ELSE m3
        m5 == IF email.reply_to # "" THEN SetHeader(m4, "Reply-To", email.reply_to) ELSE m4
    IN  SetHeaders(m5, email.headers)

\* a bug: the html part is attached before the plain one
WithPartsHtmlFirst(msg, email) ==
    IF msg.maintype = "multipart" THEN
        LET p1 == IF email.html # "" THEN Attach(msg, MIMEText(email.html, "html")) ELSE msg
            p2 == IF email.body # "" THEN Attach(p1, MIMEText(email.body, "plain")) ELSE p1
        IN  AttachAll(p2, email.attachments)
    ELSE msg

\* lines 130-141
WithParts(msg, email) ==
    IF msg.maintype = "multipart" THEN
        LET p1 == IF email.body # "" THEN Attach(msg, MIMEText(email.body, "plain")) ELSE msg
            p2 == IF email.html # "" THEN Attach(p1, MIMEText(email.html, "html")) ELSE p1
        IN  AttachAll(p2, email.attachments)
    ELSE msg

\* the Message object _build_message holds at line 143
build_document(email, config) == WithParts(WithHeaders(TopLevel(email), email, config), email)

(***************************************************************************)
(* Message.as_string(): email.generator.Generator with maxheaderlen = 0    *)
(* (no line is folded) and the compat32 policy.                            *)
(***************************************************************************)
UpperChars == "ABCDEFGHIJKLMNOPQRSTUVWXYZ"

LowerChars == "abcdefghijklmnopqrstuvwxyz"

LowerChr(c) ==
    IF \E i \in 1..Len(UpperChars) : Chr(UpperChars, i) = c
    THEN Chr(LowerChars, CHOOSE i \in 1..Len(UpperChars) : Chr(UpperChars, i) = c)
    ELSE c

RECURSIVE Lower(_)
\* str.lower() on ASCII
Lower(s) == IF Len(s) = 0 THEN "" ELSE LowerChr(Chr(s, 1)) \o Lower(Tail(s))

\* folding white space of a header (email.header.FWS)
FWS == {" ", "\t"}

RECURSIVE StripFWS(_)
\* str.strip() of a header value's first parameter
StripFWS(s) ==
    IF Len(s) > 0 /\ Chr(s, 1) \in StrWhitespace THEN StripFWS(Tail(s))
    ELSE IF Len(s) > 0 /\ Last(s) \in StrWhitespace
         THEN StripFWS(SubSeq(s, 1, Len(s) - 1))
    ELSE s

\* the line boundaries of str.splitlines(), next to "\r\n" (above U+00FF
\* Python splits as well at the line and paragraph separators U+2028, U+2029)
LineBoundaries == {"\n", "\r", VT, "\f", FS, GS, RS, NEL}

RECURSIVE SplitLinesFrom(_, _)
\* str.splitlines() of cur \o s, cur holding no line boundary
SplitLinesFrom(s, cur) ==
    IF Len(s) = 0 THEN (IF cur = "" THEN <<>> ELSE <<cur>>)
    ELSE IF Len(s) >= 2 /\ SubSeq(s, 1, 2) = "\r\n"
         THEN <<cur>> \o SplitLinesFrom(SubSeq(s, 3, Len(s)), "")
    ELSE IF Chr(s, 1) \in LineBoundaries
         THEN <<cur>> \o SplitLinesFrom(Tail(s), "")
    ELSE SplitLinesFrom(Tail(s), cur \o Chr(s, 1))

\* str.splitlines()
splitlines(s) == SplitLinesFrom(s, "")

\* _ValueFormatter.newline on a line that is followed by another: the line is
\* held as (white space, text) pairs and a last pair (" ", "") is dropped,
\* that is a single space that ends the line
FormatterLine(l) ==
    IF Last(l) = " " /\ (Len(l) = 1 \/ Chr(l, Len(l) - 1) \notin FWS)
    THEN SubSeq(l, 1, Len(l) - 1)
    ELSE l

\* _Accumulator.is_onlyws: str.isspace() of a line after the first
IsOnlyFWS(l) == \A i \in 1..Len(l) : Chr(l, i) \in StrWhitespace

RECURSIVE FormatterLines(_, _)
\* _ValueFormatter.newline for the lines after the first: an empty line is
\* dropped, a line of white space joins the line before it
FormatterLines(done, rest) ==
    IF Len(rest) = 0 THEN done
    ELSE LET t == FormatterLine(rest[1])
         IN  IF t = "" THEN FormatterLines(done, Tail(rest))
             ELSE IF IsOnlyFWS(t)
                  THEN FormatterLines([done EXCEPT ![Len(done)] = @ \o t], Tail(rest))
             ELSE FormatterLines(Append(done, t), Tail(rest))

\* Header(value).encode(maxlinelen=0) before its check: the lines of the
\* value joined by "\n"; a value of one line is written as it is
HeaderEncode(value) ==
    LET ls == splitlines(value)
    IN  IF Len(ls) = 0 THEN ""
        ELSE IF Len(ls) = 1 THEN ls[1]
        ELSE Join("\n", FormatterLines(<<FormatterLine(ls[1])>>, Tail(ls)))

\* email.header._embedded_header, \n[^ \t]+: , finds a match
EmbeddedHeader(v) ==
    \E i \in 1..Len(v) :
        /\ Chr(v, i) = "\n"
        /\ \E j \in (i + 2)..Len(v) :
              /\ Chr(v, j) = ":"
              /\ \A k \in (i + 1)..(j - 1) : Chr(v, k) \notin FWS

RECURSIVE HeaderText(_)
\* Generator._write_headers: name, ": ", the encoded value, a line end
HeaderText(hs) ==
    IF Len(hs) = 0 THEN ""
    ELSE hs[1][1] \o ": " \o HeaderEncode(hs[1][2]) \o "\n" \o HeaderText(Tail(hs))

RECURSIVE write_lines(_)
\* Generator._write_lines: every line end of a payload (\r\n, \r, \n) is
\* written as "\n"
write_lines(s) ==
    IF Len(s) = 0 THEN ""
    ELSE IF Len(s) >= 2 /\ SubSeq(s, 1, 2) = "\r\n"
         THEN "\n" \o write_lines(SubSeq(s, 3, Len(s)))
    ELSE IF Chr(s, 1) = "\r" THEN "\n" \o write_lines(Tail(s))
    ELSE Chr(s, 1) \o write_lines(Tail(s))

\* Message.get_content_type(): the first Content-Type header up to its first
\* ";", stripped and lower-cased; text/plain unless it holds exactly one "/"
get_content_type(part) ==
    LET v == part.headers[1][2]
        semi == Find(v, ";", 1)
        ctype == Lower(StripFWS(IF semi = 0 THEN v ELSE SubSeq(v, 1, semi - 1)))
        slash == Find(ctype, "/", 1)
    IN  IF slash = 0 \/ Find(ctype, "/", slash + 1) # 0 THEN "text/plain" ELSE ctype

\* get_content_maintype()
get_content_maintype(part) ==
    LET ctype == get_content_type(part)
    IN  SubSeq(ctype, 1, Find(ctype, "/", 1) - 1)

\* get_content_subtype()
get_content_subtype(part) ==
    LET ctype == get_content_type(part)
    IN  SubSeq(ctype, Find(ctype, "/", 1) + 1, Len(ctype))

RECURSIVE Underscored(_)
\* str.replace("-", "_")
Underscored(s) ==
    IF Len(s) = 0 THEN ""
    ELSE (IF Chr(s, 1) = "-" THEN "_" ELSE Chr(s, 1)) \o Underscored(Tail(s))

\* the methods _handle_<name> of email.generator.Generator
Handlers == {"text", "multipart", "multipart_signed", "message", "message_delivery_status"}

\* Generator._dispatch: the handler named after main_sub, else the one named
\* after main, "-" read as "_" in both, else _writeBody, which is _handle_text
dispatch(part) ==
    LET main == get_content_maintype(part)
        specific == Underscored(main \o "_" \o get_content_subtype(part))
        generic == Underscored(main)
    IN  IF specific \in Handlers THEN specific
        ELSE IF generic \in Handlers THEN generic
        ELSE "text"

\* as_string of a part that holds a string payload: the headers, a blank
\* line, the payload: _handle_multipart, _handle_multipart_signed and
\* _handle_message write it as it is, _handle_text line by line
LeafText(part) ==
    HeaderText(part.headers) \o "\n"
    \o (IF dispatch(part) \in {"multipart", "multipart_signed", "message"}
        THEN part.payload
        ELSE IF dispatch(part) = "message_delivery_status" THEN ""
        ELSE write_lines(part.payload))

RECURSIVE PartsText(_)
\* the parts of a multipart, boundary lines between them
PartsText(parts) ==
    IF Len(parts) = 0 THEN ""
    ELSE IF Len(parts) = 1 THEN LeafText(parts[1])
    ELSE LeafText(parts[1]) \o "\n--" \o Boundary \o "\n" \o PartsText(Tail(parts))

\* Message.set_boundary: every Content-Type header of the message, whatever
\* the case of its name, gets the value of the first with the boundary added
set_boundary(msg) ==
    LET val == msg.headers[1][2] \o "; boundary=\"" \o Boundary \o "\""
    IN  [msg EXCEPT !.headers =
            [i \in 1..Len(@) |->
                IF Lower(@[i][1]) = "content-type" THEN <<@[i][1], val>> ELSE @[i]]]

\* Generator._handle_message_delivery_status, which _dispatch picks for
\* message/delivery-status and for every other content type that gives the
\* name (message-delivery/status, message_delivery_status/x), iterates over
\* the payload, a string here, and fails on its first character
\* (AttributeError); the payload of an attachment has one unless the
\* content is empty.
IsDeliveryStatus(part) ==
    dispatch(part) = "message_delivery_status" /\ part.payload # ""

\* a header value of the message reads, after a line end, as a header of
\* its own: Header.encode raises HeaderParseError
HeaderRaises(hs) == \E i \in 1..Len(hs) : EmbeddedHeader(HeaderEncode(hs[i][2]))

\* what writing one part raises ("" when nothing): its body is written
\* before its headers
part_error(part) ==
    IF IsDeliveryStatus(part) THEN "AttributeError"
    ELSE IF HeaderRaises(part.headers) THEN "HeaderParseError"
    ELSE ""

\* what as_string raises, "" when it returns: the parts are written in
\* order, then the headers of the message
as_string_error(msg) ==
    LET bad == {i \in 1..Len(msg.parts) : part_error(msg.parts[i]) # ""}
    IN  IF bad # {} THEN part_error(msg.parts[CHOOSE i \in bad : \A j \in bad : i <= j])
        ELSE IF HeaderRaises(msg.headers) THEN "HeaderParseError"
        ELSE ""

\* Message.as_string (email.generator): a multipart sets its boundary and
\* writes its parts between boundary lines
as_string(msg) ==
    IF msg.maintype = "multipart" THEN
        HeaderText(set_boundary(msg).headers) \o "\n"
        \o "--" \o Boundary \o "\n" \o PartsText(msg.parts)
        \o "\n--" \o Boundary \o "--\n"
    ELSE LeafText(msg)

\* _build_message(email) for a session configured with config
build_message(email, config) == as_string(build_document(email, config))

\* the exception _build_message(email) raises, "" when it returns: the
\* TypeError of line 137, else what as_string raises at line 143
build_error(email, config) ==
    IF BuildRaises(email) THEN "TypeError"
    ELSE as_string_error(build_document(email, config))

(***************************************************************************)
(* Inputs: the configurations, the messages and the server's replies.      *)
(***************************************************************************)
\* a server on this machine, reached by name or, with an empty host, by the
\* wildcard address
Configs ==
    { SMTPConfig("localhost", t, c[1], c[2]) :
        t \in BOOLEAN,
        c \in { <<"", "">>, <<"u@x", "">>, <<"", "pw">>, <<"u@x", "pw">> } }
    \cup { SMTPConfig("", TRUE, "", "") }

NoMail == Email(<<>>, "", "", "", "", <<>>, <<>>, "", <<>>, <<>>)

\* one recipient, a plain body that does not end with a newline
MailPlain == Email(<<"a@b.com">>, "Hi", "hello", "", "", <<>>, <<>>, "", <<>>, <<>>)

\* to, cc and bcc recipients, plain and html bodies
MailAll ==
    Email(<<"a@b.com">>, "Hi", "hi", "<b>hi</b>", "me@x",
          <<"e@f.net">>, <<"z@z.io">>, "", <<>>, <<>>)

\* an attachment whose content type has no "/"
MailBadType ==
    Email(<<"a@b.com">>, "Hi", "hello", "", "", <<>>, <<>>, "",
          <<Attachment("f.bin", <<97, 98, 99>>, "nosplit")>>, <<>>)

\* the sender sends a blind copy to their own address
MailSelfBcc ==
    Email(<<"a@b.com">>, "Hi", "hello", "", "me@x", <<>>, <<"me@x">>, "", <<>>, <<>>)

\* the caller names the blind-copy recipient in a custom header
MailCustomBcc ==
    Email(<<"a@b.com">>, "Hi", "hello", "", "me@x", <<>>, <<"z@z.io">>, "", <<>>,
          <<<<"X-Tag", "t">>, <<"Bcc", "z@z.io">>>>)

Mails == {MailPlain, MailAll, MailBadType, MailSelfBcc, MailCustomBcc}

\* A reply as the server writes it: raw lines, and what a read past them
\* meets: the peer has closed ("eof"), stays silent ("timeout"), has reset the
\* connection ("reset") or has written bytes that are not UTF-8, which no
\* string holds ("undecodable").
Script(data, end) == [data |-> data, end |-> end]

Greeting220 == Script(<<"220-Welcome\r\n", "220 Ready\r\n">>, "timeout")
Reply250 == Script(<<"250 OK\r\n">>, "timeout")
Reply251 == Script(<<"251 Fwd\r\n">>, "timeout")
Reply354 == Script(<<"354 Go\r\n">>, "timeout")
Reply550 == Script(<<"550 No\r\n">>, "timeout")
ReplyMalformed == Script(<<"abc def\r\n">>, "timeout")
ReplyClosed == Script(<<>>, "eof")
ReplySilent == Script(<<>>, "timeout")
ReplyReset == Script(<<>>, "reset")
ReplyUndecodable == Script(<<>>, "undecodable")

Scripts ==
    {Greeting220, Reply250, Reply251, Reply354, Reply550,
     ReplyMalformed, ReplyClosed, ReplySilent, ReplyReset, ReplyUndecodable}

(***************************************************************************)
(* State.                                                                  *)
(***************************************************************************)
VARIABLES
    usage,     \* "raw": one SMTPClient driven by connect/send/close calls;
               \* "module": every call is the module-level send(config, mail)
    config,    \* self.config
    sock,      \* self._socket: 0 is None, else an index into socks
    file,      \* self._file: 0 is None, else the socket the reader reads
    tls,       \* the transport of self._socket is TLS-wrapped
    conn,      \* the connection self._file reads: "ok"; "timedout" once a read
               \* has timed out (the reader, a socket.SocketIO, then refuses
               \* every later read); "reset" once the peer has reset it
    socks,     \* every socket this SMTPClient has created: "created";
               \* "connected"; "held", once close() was called on the socket
               \* object while its reader, which nothing closes, keeps the
               \* descriptor and with it the connection open; "closed", once
               \* the descriptor is closed
    top,       \* the call the caller made: connect, send, close, msend
    pc,        \* the statement the session is at
    rd,        \* inside _command/_read_response: send, readline, check, got
    inbuf,     \* raw lines the server has written and the reader not yet read
    atEnd,     \* what readline meets once inbuf is empty
    lines,     \* _read_response: lines
    line,      \* _read_response: line
    resp,      \* the last (code, text) _read_response returned
    mail,      \* send(email): email
    idx,       \* send: position in recipients
    pending,   \* module-level send: the outcome of the with body
    result,    \* the outcome of the last top-level call
    swallowed, \* the exception close() caught and dropped in the current
               \* top-level call
    wire,      \* what the current top-level call wrote to the transport
    replies,   \* the (code, text) pairs send() got from _command in the
               \* current top-level call
    rejected,  \* connect() of the current top-level call read a reply with a
               \* status code of 400 or more
    stub,      \* in the current top-level call the peer has so far accepted
               \* the connection and every write, greeted with the two lines
               \* "220-Welcome", "220 Ready" and answered "250 OK" to
               \* every command
    calls,     \* top-level calls made
    prev,      \* the top-level call before the current one and how it ended
    served     \* the raw lines the server wrote in answer to the last read
               \* of the current top-level call that is under way or raised

vars ==
    <<usage, config, sock, file, tls, conn, socks, top, pc, rd, inbuf, atEnd, lines,
      line, resp, mail, idx, pending, result, swallowed, wire, replies, rejected,
      stub, calls, prev, served>>

NoErr == [type |-> "", text |-> ""]
Err(type, text) == [type |-> type, text |-> text]
NoResult == [status |-> "none", err |-> NoErr]
Returned == [status |-> "returned", err |-> NoErr]
Raised(e) == [status |-> "raised", err |-> e]

NoResp == <<0, "">>

NoCall == [top |-> "none", status |-> "none"]

ConnectStages == {"open", "greeting", "ehlo", "starttls", "wrap", "ehlo2", "auth", "user", "pass"}
SendStages == {"mail", "rcpt", "data", "message", "dot"}
CloseStages == {"quit", "sockclose"}
\* the stages that run _command
CommandStages == {"ehlo", "starttls", "ehlo2", "auth", "user", "pass",
                  "mail", "rcpt", "data", "dot", "quit"}

\* a bug: the bcc addresses get no RCPT TO
RecipientsWithoutBcc(email) == email.to \o email.cc

\* line 147
Recipients(email) == email.to \o email.cc \o email.bcc

\* line 146
FromAddr(email, cfg) == StrOr(email.from_addr, cfg.username)

\* the argument of _command at each stage
CmdText(stage) ==
    CASE stage \in {"ehlo", "ehlo2"} -> "EHLO localhost"
      [] stage = "starttls" -> "STARTTLS"
      [] stage = "auth" -> "AUTH LOGIN"
      [] stage = "user" -> b64encode(encode(config.username))
      [] stage = "pass" -> b64encode(encode(config.password))
      [] stage = "mail" -> "MAIL FROM:<" \o FromAddr(mail, config) \o ">"
      [] stage = "rcpt" -> "RCPT TO:<" \o Recipients(mail)[idx] \o ">"
      [] stage = "data" -> "DATA"
      [] stage = "dot" -> "."
      [] stage = "quit" -> "QUIT"

\* a bug: a password alone starts AUTH LOGIN
UseAuthOnPassword(cfg) == cfg.password # ""

\* line 91
UseAuth(cfg) == cfg.username # "" /\ cfg.password # ""

\* line 84
UseTLS(cfg) == cfg.use_tls

\* connect, lines 81-96: the stage after each handshake reply
NextHandshake(stage, cfg) ==
    CASE stage = "greeting" -> "ehlo"
      [] stage = "ehlo" ->
            IF UseTLS(cfg) THEN "starttls"
            ELSE IF UseAuth(cfg) THEN "auth" ELSE "connected"
      [] stage = "starttls" -> "wrap"
      [] stage = "ehlo2" -> IF UseAuth(cfg) THEN "auth" ELSE "connected"
      [] stage = "auth" -> "user"
      [] stage = "user" -> "pass"
      [] stage = "pass" -> "connected"

\* a bug: any 2xx reply to MAIL FROM is taken for an acceptance
MailAccepted2xx(code) == code \in 200..299

\* line 150
MailAccepted(code) == code = 250
\* line 155
RcptAccepted(code) == code \in {250, 251}
\* a bug: DATA answered 250 is taken for a go-ahead
DataAcceptedOn250(code) == code \in {250, 354}

\* line 159
DataAccepted(code) == code = 354
\* a bug: the reply to the terminating "." is not looked at
DotAcceptedAlways(code) == TRUE

\* line 165
DotAccepted(code) == code = 250

\* one sendall: the bytes, the statement that wrote them (line 110 or line
\* 163) and whether the transport was TLS-wrapped
Written(by, data) == [by |-> by, tls |-> tls, data |-> data]

\* a bug: any line of four characters or more ends the reply
IsTerminatorAnyFourth(l) == Len(l) >= 4

\* line 103
IsTerminator(l) == Len(l) >= 4 /\ Chr(l, 4) = " "

Init ==
    /\ usage \in {"raw", "module"}
    /\ config \in Configs
    /\ sock = 0 /\ file = 0 /\ tls = FALSE /\ conn = "ok"
    /\ socks = <<>>
    /\ top = "none" /\ pc = "idle" /\ rd = "none"
    /\ inbuf = <<>> /\ atEnd = "timeout" /\ lines = <<>> /\ line = ""
    /\ resp = NoResp
    /\ mail = NoMail /\ idx = 0
    /\ pending = NoResult /\ result = NoResult /\ swallowed = NoErr
    /\ wire = <<>> /\ replies = <<>> /\ rejected = FALSE /\ stub = TRUE
    /\ calls = 0
    /\ prev = NoCall /\ served = <<>>

(***************************************************************************)
(* Exceptions.  An exception raised inside close() is swallowed (lines     *)
(* 171-174); one raised in the body of `with SMTPClient(config) as client` *)
(* runs __exit__, that is close(), and is re-raised after it (lines        *)
(* 181-182, 230-231); any other one, the ones raised by connect() inside   *)
(* __enter__ included (line 179), reaches the caller at once.              *)
(***************************************************************************)
Raise(e) ==
    IF pc = "quit" THEN
        /\ pc' = "sockclose" /\ rd' = "none"
        /\ swallowed' = e
        /\ UNCHANGED <<pending, result>>
    ELSE IF top = "msend" /\ pc \in SendStages THEN
        /\ pc' = "quit" /\ rd' = "send"
        /\ pending' = Raised(e)
        /\ UNCHANGED <<result, swallowed>>
    ELSE
        /\ pc' = "idle" /\ rd' = "none"
        /\ result' = Raised(e)
        /\ UNCHANGED <<pending, swallowed>>

(***************************************************************************)
(* The caller.                                                             *)
(***************************************************************************)
StartCall(t, stage, r, m) ==
    /\ pc = "idle"
    /\ calls' = calls + 1
    /\ top' = t /\ pc' = stage /\ rd' = r
    /\ mail' = m /\ idx' = IF stage = "mail" THEN 1 ELSE 0
    /\ wire' = <<>> /\ replies' = <<>> /\ rejected' = FALSE /\ stub' = TRUE
    /\ result' = NoResult /\ pending' = NoResult /\ swallowed' = NoErr
    /\ resp' = NoResp
    /\ prev' = [top |-> top, status |-> result.status]
    /\ served' = <<>>
    /\ UNCHANGED <<usage, config, inbuf, atEnd, lines, line>>

\* client.connect()
CallConnect ==
    /\ usage = "raw" /\ calls < MaxCalls
    /\ StartCall("connect", "open", "none", NoMail)
    /\ UNCHANGED <<sock, file, tls, conn, socks>>

\* a bug: send() opens a connection of its own before the mail commands
CallSendReconnecting ==
    /\ usage = "raw" /\ calls < MaxCalls
    /\ \E m \in Mails : StartCall("send", "open", "none", m)
    /\ UNCHANGED <<sock, file, tls, conn, socks>>

\* client.send(email)
CallSend ==
    /\ usage = "raw" /\ calls < MaxCalls
    /\ \E m \in Mails : StartCall("send", "mail", "send", m)
    /\ UNCHANGED <<sock, file, tls, conn, socks>>

\* client.close()
CallClose ==
    /\ usage = "raw" /\ calls < MaxCalls
    /\ StartCall("close", "quit", "send", NoMail)
    /\ UNCHANGED <<sock, file, tls, conn, socks>>

\* send(config, mail), lines 229-231: SMTPClient(config) (lines 70-73), then
\* __enter__ (line 179).  Every call builds a client of its own, so the calls
\* do not act on each other and the model follows one.
CallModuleSend ==
    /\ usage = "module" /\ calls = 0
    /\ \E m \in Mails : StartCall("msend", "open", "none", m)
    /\ sock' = 0 /\ file' = 0 /\ tls' = FALSE /\ conn' = "ok" /\ socks' = <<>>

(***************************************************************************)
(* connect(), lines 75-96.                                                 *)
(***************************************************************************)
\* the descriptor of the socket is open: the peer sees no end of stream and
\* sendall writes to it
IsOpen(state) == state \in {"connected", "held"}

\* A socket neither self._socket (s) nor self._file (f) refers to any longer.
\* No statement closes it: the garbage collector may finalize it, which
\* closes it (collect), or may not have done so yet.
Finalize(all, s, f, collect) ==
    [i \in 1..Len(all) |->
        IF collect /\ i # s /\ i # f THEN "closed" ELSE all[i]]

\* lines 76-79: socket(), settimeout, connect, makefile.  The assignments
\* replace what self._socket and self._file referred to.  The server writes
\* its greeting when it accepts.
Open ==
    /\ pc = "open"
    /\ sock' = Len(socks) + 1 /\ tls' = FALSE
    /\ \/ /\ file' = Len(socks) + 1 /\ conn' = "ok"
          /\ \E collect \in BOOLEAN :
                socks' = Finalize(Append(socks, "connected"),
                                  Len(socks) + 1, Len(socks) + 1, collect)
          /\ \E s \in Scripts :
                /\ inbuf' = s.data /\ atEnd' = s.end /\ served' = s.data
                /\ stub' = (stub /\ s = Greeting220)
          /\ lines' = <<>>
          /\ pc' = "greeting" /\ rd' = "readline"
          /\ UNCHANGED <<pending, result, swallowed>>
       \/ /\ \E collect \in BOOLEAN :
                socks' = Finalize(Append(socks, "created"), Len(socks) + 1, file, collect)
          /\ Raise(Err("OSError", "connect"))
          /\ stub' = FALSE
          /\ UNCHANGED <<file, conn, inbuf, atEnd, lines, served>>
    /\ UNCHANGED <<usage, config, top, line, resp, mail, idx, wire, replies, rejected,
                   calls, prev>>

\* a change of behaviour: a handshake reply of 400 or more raises SMTPError
HandshakeStepValidating ==
    /\ pc \in {"greeting", "ehlo", "starttls", "ehlo2", "auth", "user", "pass"}
    /\ rd = "got"
    /\ LET n == NextHandshake(pc, config)
       IN  IF resp[1] >= 400 THEN
               /\ Raise(Err("SMTPError", "handshake failed: " \o resp[2]))
               /\ UNCHANGED idx
           ELSE IF n # "connected" THEN
               /\ pc' = n /\ rd' = IF n = "wrap" THEN "none" ELSE "send"
               /\ UNCHANGED <<idx, result, pending, swallowed>>
           ELSE IF top = "msend" THEN
               \* __enter__ returns the client; the with body calls send(mail)
               /\ pc' = "mail" /\ rd' = "send" /\ idx' = 1
               /\ UNCHANGED <<result, pending, swallowed>>
           ELSE
               /\ pc' = "idle" /\ rd' = "none" /\ result' = Returned
               /\ UNCHANGED <<idx, pending, swallowed>>
    /\ resp' = NoResp /\ served' = <<>>
    /\ UNCHANGED <<prev, usage, config, sock, file, tls, conn, socks, top, inbuf, atEnd, lines,
                   line, mail, wire, replies, rejected, stub, calls>>

\* lines 81-96 after each reply: no status code is looked at
HandshakeStep ==
    /\ pc \in {"greeting", "ehlo", "starttls", "ehlo2", "auth", "user", "pass"}
    /\ rd = "got"
    /\ LET n == NextHandshake(pc, config)
       IN  IF n # "connected" THEN
               /\ pc' = n /\ rd' = IF n = "wrap" THEN "none" ELSE "send"
               /\ UNCHANGED <<idx, result>>
           ELSE IF top = "msend" THEN
               \* __enter__ returns the client; the with body calls send(mail)
               /\ pc' = "mail" /\ rd' = "send" /\ idx' = 1
               /\ UNCHANGED result
           ELSE
               /\ pc' = "idle" /\ rd' = "none" /\ result' = Returned
               /\ UNCHANGED idx
    /\ resp' = NoResp /\ served' = <<>>
    /\ UNCHANGED <<prev, usage, config, sock, file, tls, conn, socks, top, inbuf, atEnd, lines,
                   line, mail, pending, swallowed, wire, replies, rejected, stub,
                   calls>>

\* a bug: when the TLS handshake fails the session goes on in plaintext
WrapFallingBack ==
    /\ pc = "wrap"
    /\ \E ok \in BOOLEAN : tls' = ok
    /\ file' = sock
    /\ pc' = "ehlo2" /\ rd' = "send"
    /\ UNCHANGED <<socks, pending, result, swallowed>>
    /\ UNCHANGED <<usage, config, sock, conn, top, inbuf, atEnd, lines, line, resp, mail,
                   idx, wire, replies, rejected, stub, calls, prev, served>>

\* lines 86-88: wrap_socket and a new reader.  A handshake that fails
\* raises what stopped it, after the ssl module has closed the descriptor:
\* ssl.SSLError (a certificate that is not trusted, an answer that is not
\* TLS, a peer that closes), TimeoutError (a peer that stays silent),
\* ConnectionResetError (a peer that resets).  With an empty config.host
\* wrap_socket raises ValueError (check_hostname requires server_hostname)
\* before it touches the socket, which stays connected.
Wrap ==
    /\ pc = "wrap"
    /\ IF config.host = "" THEN
           /\ Raise(Err("ValueError", "wrap_socket"))
           /\ UNCHANGED <<tls, file, conn, socks>>
       ELSE
           \/ /\ tls' = TRUE /\ file' = sock /\ conn' = "ok"
              /\ pc' = "ehlo2" /\ rd' = "send"
              /\ UNCHANGED <<socks, pending, result, swallowed>>
           \/ /\ socks' = [socks EXCEPT ![sock] = "closed"]
              /\ \E e \in {"SSLError", "TimeoutError", "ConnectionResetError"} :
                    Raise(Err(e, "wrap_socket"))
              /\ UNCHANGED <<tls, file, conn>>
    /\ UNCHANGED <<usage, config, sock, top, inbuf, atEnd, lines, line, resp, mail,
                   idx, wire, replies, rejected, stub, calls, prev, served>>

(***************************************************************************)
(* _command (lines 108-111) and _read_response (lines 98-106).             *)
(***************************************************************************)
\* Past the lines the server wrote the reader is at end of stream: the peer
\* has closed the connection, or it has reset a TLS connection, which the
\* SSLSocket reads as an end of stream (a ragged EOF, suppressed) and not as
\* an error.
EndOfStream == atEnd = "eof" \/ (atEnd = "reset" /\ tls)

\* line 110: sendall(f"{cmd}\r\n"), then the server answers.  sendall
\* raises on a socket that is not connected or whose descriptor is closed
\* (OSError) and on a connection the peer has reset (BrokenPipeError); after
\* close() it writes as before when the reader holds the descriptor.  It
\* does not consult the reader: on a connection whose reader has timed out
\* it writes, or raises when the peer has reset the connection since
\* (ConnectionResetError, BrokenPipeError, over TLS ssl.SSLEOFError, all of
\* them OSError).  What the server answers there is never read.
Command ==
    /\ pc \in CommandStages /\ rd = "send"
    /\ IF sock = 0 THEN
           /\ Raise(Err("AttributeError", "sendall"))
           /\ stub' = FALSE
           /\ UNCHANGED <<wire, inbuf, atEnd, lines, served>>
       ELSE IF ~IsOpen(socks[sock]) \/ conn = "reset" THEN
           /\ Raise(Err("OSError", "sendall"))
           /\ stub' = FALSE
           /\ UNCHANGED <<wire, inbuf, atEnd, lines, served>>
       ELSE IF conn = "timedout" THEN
           \/ /\ wire' = Append(wire, Written("command", CmdText(pc) \o "\r\n"))
              /\ inbuf' = <<>> /\ served' = <<>> /\ stub' = FALSE
              /\ lines' = <<>>
              /\ rd' = "readline"
              /\ UNCHANGED <<pc, pending, result, swallowed, atEnd>>
           \/ /\ Raise(Err("OSError", "sendall"))
              /\ stub' = FALSE
              /\ UNCHANGED <<wire, inbuf, atEnd, lines, served>>
       ELSE
           \/ /\ wire' = Append(wire, Written("command", CmdText(pc) \o "\r\n"))
              /\ \E s \in Scripts :
                    /\ inbuf' = s.data /\ atEnd' = s.end /\ served' = s.data
                    /\ stub' = (stub /\ s = Reply250)
              /\ lines' = <<>>
              /\ rd' = "readline"
              /\ UNCHANGED <<pc, pending, result, swallowed>>
           \/ /\ Raise(Err("OSError", "sendall"))
              /\ stub' = FALSE
              /\ UNCHANGED <<wire, inbuf, atEnd, lines, served>>
    /\ UNCHANGED <<usage, config, sock, file, tls, conn, socks, top, line, resp, mail,
                   idx, replies, rejected, calls, prev>>

\* line 101: readline().decode("utf-8").rstrip("\r\n").  A reader that has
\* timed out raises OSError on every later read.  Past the lines the server
\* wrote: at end of stream readline returns b""; on a silent peer it raises
\* TimeoutError after the timeout; on a reset it raises ConnectionResetError
\* on a plaintext connection; bytes that are not UTF-8 make decode raise
\* UnicodeDecodeError.
ReadLine ==
    /\ rd = "readline"
    /\ IF conn = "timedout" THEN
           /\ Raise(Err("OSError", "cannot read from timed out object"))
           /\ lines' = <<>> /\ line' = ""
           /\ UNCHANGED <<inbuf, served, conn>>
       ELSE IF Len(inbuf) > 0 THEN
           /\ line' = RStripCRLF(Head(inbuf)) /\ inbuf' = Tail(inbuf)
           /\ rd' = "check"
           /\ UNCHANGED <<pc, pending, result, swallowed, lines, served, conn>>
       ELSE IF EndOfStream THEN
           /\ line' = "" /\ rd' = "check"
           /\ UNCHANGED <<pc, pending, result, swallowed, lines, inbuf, served, conn>>
       ELSE IF atEnd = "timeout" THEN
           /\ Raise(Err("TimeoutError", "timed out"))
           /\ conn' = "timedout"
           /\ lines' = <<>> /\ line' = ""
           /\ UNCHANGED <<inbuf, served>>
       ELSE IF atEnd = "reset" THEN
           /\ Raise(Err("ConnectionResetError", "readline"))
           /\ conn' = "reset"
           /\ lines' = <<>> /\ line' = ""
           /\ UNCHANGED <<inbuf, served>>
       ELSE
           /\ Raise(Err("UnicodeDecodeError", "decode"))
           /\ lines' = <<>> /\ line' = ""
           /\ UNCHANGED <<inbuf, served, conn>>
    /\ UNCHANGED <<usage, config, sock, file, tls, socks, top, atEnd, resp, mail, idx,
                   wire, replies, rejected, stub, calls, prev>>

\* lines 102-106: every line is appended.  At end of stream the loop reads
\* empty lines for ever; of those the model records none once lines holds
\* MaxLines lines.
CheckLine ==
    /\ rd = "check"
    /\ LET endless == Len(inbuf) = 0 /\ EndOfStream /\ line = ""
           all == IF endless /\ Len(lines) >= MaxLines THEN lines
                  ELSE Append(lines, line)
           parsed == ParseInt(Prefix(line, 3))
       IN  IF ~IsTerminator(line) THEN
               /\ lines' = all /\ rd' = "readline"
               /\ UNCHANGED <<pc, pending, result, swallowed, replies, rejected, resp, line,
                              served>>
           ELSE IF parsed.ok THEN
               /\ resp' = <<parsed.val, Join("\n", all)>>
               /\ replies' = IF pc \in SendStages
                             THEN Append(replies, <<parsed.val, Join("\n", all)>>)
                             ELSE replies
               /\ rejected' = (rejected \/ (pc \in ConnectStages /\ parsed.val >= 400))
               /\ rd' = "got" /\ lines' = <<>> /\ line' = ""
               /\ UNCHANGED <<pc, pending, result, swallowed, served>>
           ELSE
               /\ Raise(Err("ValueError", "int"))
               /\ lines' = <<>> /\ line' = ""
               /\ UNCHANGED <<resp, replies, rejected, served>>
    /\ UNCHANGED <<usage, config, sock, file, tls, conn, socks, top, inbuf, atEnd, mail, idx,
                   wire, stub, calls, prev>>

(***************************************************************************)
(* send(email), lines 145-168.                                             *)
(***************************************************************************)
\* send returns True: to the caller, or to the with body, whose return runs
\* __exit__
SendReturns ==
    IF top = "msend" THEN
        /\ pc' = "quit" /\ rd' = "send"
        /\ pending' = Returned
        /\ UNCHANGED <<result, swallowed>>
    ELSE
        /\ pc' = "idle" /\ rd' = "none"
        /\ result' = Returned
        /\ UNCHANGED <<pending, swallowed>>

\* lines 149-151
AfterMail ==
    /\ pc = "mail" /\ rd = "got"
    /\ IF MailAccepted(resp[1]) THEN
           /\ pc' = IF Len(Recipients(mail)) > 0 THEN "rcpt" ELSE "data"
           /\ rd' = "send"
           /\ UNCHANGED <<pending, result, swallowed>>
       ELSE Raise(Err("SMTPError", "MAIL FROM failed: " \o resp[2]))
    /\ resp' = NoResp /\ served' = <<>>
    /\ UNCHANGED <<prev, usage, config, sock, file, tls, conn, socks, top, inbuf, atEnd, lines,
                   line, mail, idx, wire, replies, rejected, stub, calls>>

\* lines 153-156
AfterRcpt ==
    /\ pc = "rcpt" /\ rd = "got"
    /\ IF RcptAccepted(resp[1]) THEN
           /\ pc' = IF idx < Len(Recipients(mail)) THEN "rcpt" ELSE "data"
           /\ idx' = idx + 1
           /\ rd' = "send"
           /\ UNCHANGED <<pending, result, swallowed>>
       ELSE
           /\ Raise(Err("SMTPError",
                        "RCPT TO failed for " \o Recipients(mail)[idx] \o ": " \o resp[2]))
           /\ UNCHANGED idx
    /\ resp' = NoResp /\ served' = <<>>
    /\ UNCHANGED <<prev, usage, config, sock, file, tls, conn, socks, top, inbuf, atEnd, lines,
                   line, mail, wire, replies, rejected, stub, calls>>

\* lines 158-160
AfterData ==
    /\ pc = "data" /\ rd = "got"
    /\ IF DataAccepted(resp[1]) THEN
           /\ pc' = "message" /\ rd' = "none"
           /\ UNCHANGED <<pending, result, swallowed>>
       ELSE Raise(Err("SMTPError", "DATA failed: " \o resp[2]))
    /\ resp' = NoResp /\ served' = <<>>
    /\ UNCHANGED <<prev, usage, config, sock, file, tls, conn, socks, top, inbuf, atEnd, lines,
                   line, mail, idx, wire, replies, rejected, stub, calls>>

\* what line 163 writes: the serialized message as it is
MessageBytes(email, cfg) == build_message(email, cfg)

\* lines 162-163: _build_message, then sendall(message.encode())
SendMessage ==
    /\ pc = "message"
    /\ IF build_error(mail, config) # "" THEN
           /\ Raise(Err(build_error(mail, config), "_build_message"))
           /\ UNCHANGED <<wire, stub>>
       ELSE
           \/ /\ wire' = Append(wire, Written("message", MessageBytes(mail, config)))
              /\ pc' = "dot" /\ rd' = "send"
              /\ UNCHANGED <<pending, result, swallowed, stub>>
           \/ /\ Raise(Err("OSError", "sendall"))
              /\ stub' = FALSE
              /\ UNCHANGED wire
    /\ UNCHANGED <<usage, config, sock, file, tls, conn, socks, top, inbuf, atEnd, lines,
                   line, resp, mail, idx, replies, rejected, calls, prev, served>>

\* lines 164-168
AfterDot ==
    /\ pc = "dot" /\ rd = "got"
    /\ IF DotAccepted(resp[1]) THEN SendReturns
       ELSE Raise(Err("SMTPError", "Send failed: " \o resp[2]))
    /\ resp' = NoResp /\ served' = <<>>
    /\ UNCHANGED <<prev, usage, config, sock, file, tls, conn, socks, top, inbuf, atEnd, lines,
                   line, mail, idx, wire, replies, rejected, stub, calls>>

(***************************************************************************)
(* close(), lines 170-176.                                                 *)
(***************************************************************************)
\* line 172 returned
AfterQuit ==
    /\ pc = "quit" /\ rd = "got"
    /\ pc' = "sockclose" /\ rd' = "none"
    /\ resp' = NoResp /\ served' = <<>>
    /\ UNCHANGED <<prev, usage, config, sock, file, tls, conn, socks, top, inbuf, atEnd, lines,
                   line, mail, idx, pending, result, swallowed, wire, replies,
                   rejected, stub, calls>>

\* lines 175-176; then close() returns, and __exit__ re-raises what the with
\* body raised.  socket.close() closes the descriptor only when no reader
\* made by makefile() is open on the socket; close() never closes self._file,
\* so the descriptor of a connected socket stays open as long as the client
\* lives.  The client of the module-level send is dropped when the call
\* returns, which closes it; when the call raises, the traceback of the
\* exception keeps the client until the caller lets go of the exception.
SockClose ==
    /\ pc = "sockclose"
    /\ IF sock = 0 THEN UNCHANGED socks
       ELSE IF ~(IsOpen(socks[sock]) /\ file = sock)
            THEN socks' = [socks EXCEPT ![sock] = "closed"]
       ELSE IF top # "msend" THEN socks' = [socks EXCEPT ![sock] = "held"]
       ELSE IF pending.status = "returned"
            THEN socks' = [socks EXCEPT ![sock] = "closed"]
       ELSE \E state \in {"held", "closed"} : socks' = [socks EXCEPT ![sock] = state]
    /\ result' = IF top = "msend" THEN pending ELSE Returned
    /\ pc' = "idle" /\ rd' = "none"
    /\ UNCHANGED <<usage, config, sock, file, tls, conn, top, inbuf, atEnd, lines, line,
                   resp, mail, idx, pending, swallowed, wire, replies, rejected, stub,
                   calls, prev, served>>

Next ==
    \/ CallConnect
    \/ CallSend
    \/ CallClose
    \/ CallModuleSend
    \/ Open
    \/ HandshakeStep
    \/ Wrap
    \/ Command
    \/ ReadLine
    \/ CheckLine
    \/ AfterMail
    \/ AfterRcpt
    \/ AfterData
    \/ SendMessage
    \/ AfterDot
    \/ AfterQuit
    \/ SockClose

Spec == Init /\ [][Next]_vars

\* the steps of _command, _read_response and close(): a call under way goes
\* on, and a blocking write or read returns or raises; the caller is free
\* never to make another call
Running == Command \/ ReadLine \/ CheckLine \/ AfterQuit \/ SockClose

FairSpec == Spec /\ WF_vars(Running)

\* A session in which the caller only connects and closes: SMTPClient(config),
\* then connect() and close() in any order. Every step of a call under way
\* is fair: a call the caller has made goes on to its end, while the caller
\* is free never to make another call. Each of its behaviours is a behaviour
\* of Spec in which send() is never called.
CloseInit == Init /\ usage = "raw"

CloseSteps ==
    \/ Open \/ HandshakeStep \/ Wrap \/ Command \/ ReadLine \/ CheckLine
    \/ AfterQuit \/ SockClose

CloseNext == CallConnect \/ CallClose \/ CloseSteps

CloseSpec == CloseInit /\ [][CloseNext]_vars /\ WF_vars(CloseSteps)

TypeOK ==
    /\ usage \in {"raw", "module"}
    /\ config \in Configs
    /\ sock \in 0..Len(socks) /\ file \in 0..Len(socks)
    /\ tls \in BOOLEAN
    /\ conn \in {"ok", "timedout", "reset"}
    /\ \A i \in 1..Len(socks) : socks[i] \in {"created", "connected", "held", "closed"}
    /\ top \in {"none", "connect", "send", "close", "msend", "build"}
    /\ pc \in {"idle", "build"} \cup ConnectStages \cup SendStages \cup CloseStages
    /\ rd \in {"none", "send", "readline", "check", "got"}
    /\ rd \in {"readline", "check"} => file = sock /\ sock # 0
    /\ Len(lines) <= MaxLines
    /\ calls \in 0..MaxCalls
    /\ result.status \in {"none", "returned", "raised"}

(***************************************************************************)
(* The MIME builder on its own: client._build_message(email) for messages  *)
(* drawn from every combination of bodies, addressing, attachments and     *)
(* custom headers below.                                                   *)
(***************************************************************************)
AttachBin == Attachment("f.bin", <<97, 98, 99>>, DefaultContentType)
AttachText == Attachment("my report.txt", <<104, 105>>, "text/plain")
AttachBadType == Attachment("f.bin", <<97, 98, 99>>, "nosplit")

\* no body; one that ends without a line end; one with CRLF line ends
Bodies == {"", "hello", "a\r\nb\r\n"}
Htmls == {"", "<b>hi</b>"}
AttachmentLists == {<<>>, <<AttachBin>>, <<AttachBin, AttachText>>, <<AttachBadType>>}
\* email.headers: no custom header; one that collides with Subject; one that
\* collides with nothing and one that collides with To; one whose value
\* holds a header line of its own
HeaderDicts ==
    {<<>>,
     << <<"Subject", "Custom">> >>,
     << <<"X-Tag", "t">>, <<"To", "x@y.z">> >>,
     << <<"X-Note", "a\r\nBcc: c@d.e">> >>}
\* from_addr, cc, bcc, reply_to: bare; all set; a blind copy to the sender
Addressings ==
    {[from_addr |-> "", cc |-> <<>>, bcc |-> <<>>, reply_to |-> ""],
     [from_addr |-> "me@x", cc |-> <<"e@f.net", "g@h.org">>, bcc |-> <<"z@z.io">>,
      reply_to |-> "r@x"],
     [from_addr |-> "me@x", cc |-> <<>>, bcc |-> <<"me@x">>, reply_to |-> ""]}

BuildMails ==
    { Email(<<"a@b.com">>, "Hi", b, h, a.from_addr, a.cc, a.bcc, a.reply_to, att, hd) :
        b \in Bodies, h \in Htmls, a \in Addressings,
        att \in AttachmentLists, hd \in HeaderDicts }

\* a call that returned v
ReturnedValue(v) == [status |-> "returned", err |-> NoErr, value |-> v]

\* client._build_message(email)
CallBuild ==
    /\ usage = "raw" /\ calls < MaxCalls
    /\ \E m \in BuildMails : StartCall("build", "build", "none", m)
    /\ UNCHANGED <<sock, file, tls, conn, socks>>

\* lines 113-143: the serialized message, or the exception of line 137 or 143
Build ==
    /\ pc = "build"
    /\ IF build_error(mail, config) # "" THEN
           Raise(Err(build_error(mail, config), "_build_message"))
       ELSE /\ pc' = "idle" /\ rd' = "none"
            /\ result' = ReturnedValue(build_message(mail, config))
            /\ UNCHANGED <<pending, swallowed>>
    /\ UNCHANGED <<usage, config, sock, file, tls, conn, socks, top, inbuf, atEnd, lines,
                   line, resp, mail, idx, wire, replies, rejected, stub, calls, prev,
                   served>>

MimeInit == Init /\ usage = "raw"

MimeNext == CallBuild \/ Build

MimeSpec == MimeInit /\ [][MimeNext]_vars

(***************************************************************************)
(* The reply parser on its own: _read_response (lines 98-106) reading the  *)
(* first reply of a connection, for every reply of 1..MaxLines lines made  *)
(* of the lines below, followed by silence or by the end of the stream.    *)
(***************************************************************************)
\* a continuation line, a line shorter than 4 characters, a final line, a
\* final line that ends with a bare LF, final lines whose first 3 characters
\* are no number, a signed number, a number after a form feed, a number
\* after a vertical tab and a number after a unit separator, which int()
\* does not skip
ReplyLines ==
    {"250-A\r\n", "ok\r\n", "250 OK\r\n", "354 \n", "abc d\r\n", "+25 x\r\n",
     "\f25 x\r\n", VT \o "25 x\r\n", US \o "25 x\r\n"}

ParserReplies == UNION { [1..n -> ReplyLines] : n \in 1..MaxLines }

\* connect() has run lines 76-79; line 81 calls _read_response
ParserInit ==
    /\ usage = "raw"
    /\ config \in Configs
    /\ sock = 1 /\ file = 1 /\ tls = FALSE /\ conn = "ok"
    /\ socks = <<"connected">>
    /\ top = "connect" /\ pc = "greeting" /\ rd = "readline"
    /\ inbuf \in ParserReplies /\ served = inbuf
    /\ atEnd \in {"timeout", "eof", "reset", "undecodable"}
    /\ lines = <<>> /\ line = ""
    /\ resp = NoResp
    /\ mail = NoMail /\ idx = 0
    /\ pending = NoResult /\ result = NoResult /\ swallowed = NoErr
    /\ wire = <<>> /\ replies = <<>> /\ rejected = FALSE /\ stub = FALSE
    /\ calls = 1 /\ prev = NoCall

ParserNext == ReadLine \/ CheckLine

ParserSpec == ParserInit /\ [][ParserNext]_vars

(***************************************************************************)
(* Reading the transcript.                                                 *)
(***************************************************************************)
StartsWith(str, pre) == Len(str) >= Len(pre) /\ SubSeq(str, 1, Len(pre)) = pre

IsMailCmd(w) == w.by = "command" /\ StartsWith(w.data, "MAIL FROM:")
IsRcptCmd(w) == w.by = "command" /\ StartsWith(w.data, "RCPT TO:")
IsDataCmd(w) == w.by = "command" /\ w.data = "DATA\r\n"
IsMessage(w) == w.by = "message"
IsDotCmd(w) == w.by = "command" /\ w.data = ".\r\n"
IsQuitCmd(w) == w.by = "command" /\ w.data = "QUIT\r\n"

\* the place of a write in the protocol: 0 for the handshake
Rank(w) ==
    CASE IsMailCmd(w) -> 1
      [] IsRcptCmd(w) -> 2
      [] IsDataCmd(w) -> 3
      [] IsMessage(w) -> 4
      [] IsDotCmd(w) -> 5
      [] IsQuitCmd(w) -> 6
      [] OTHER -> 0

IsSendCmd(w) == Rank(w) \in {1, 2, 3, 5}

\* the commands send() issued, in order: replies[k] answers SendCmds[k]
SendCmds == SelectSeq(wire, IsSendCmd)

RcptCmds == SelectSeq(wire, IsRcptCmd)

HandshakeCmds == SelectSeq(wire, LAMBDA w : Rank(w) = 0)

Wrote(P(_)) == \E i \in 1..Len(wire) : P(wire[i])

\* the outcome of send(email) once it has returned or raised: the result of a
\* client.send call, or what the with body of the module-level send produced
SendOutcome ==
    IF top = "send" THEN result
    ELSE IF top = "msend" /\ pc \in CloseStages THEN pending
    ELSE IF top = "msend" /\ pc = "idle" /\ Len(wire) > 0 /\ Wrote(IsMailCmd) THEN result
    ELSE NoResult

\* send() is between a reply and the statement that looks at its code
AtReply == pc \in SendStages /\ rd = "got"

(***************************************************************************)
(* C1: within one send() the writes come in the order MAIL FROM, the RCPT  *)
(* TO commands, DATA, the serialized message, the terminating "."; each    *)
(* of MAIL FROM, DATA, the message and "." is written at most once; and    *)
(* each step is gated by the reply before it: a RCPT TO is written only    *)
(* after MAIL FROM was answered 250, DATA only after every RCPT TO was     *)
(* answered 250 or 251, and the message only after DATA was answered 354.  *)
(***************************************************************************)
C1_SendOrderAndGating ==
    /\ \A i \in 1..(Len(wire) - 1) :
          LET a == Rank(wire[i])
              b == Rank(wire[i + 1])
          IN  a <= b /\ (a = b => a \in {0, 2})
    /\ \A i \in 1..Len(wire) :
          /\ Rank(wire[i]) \in {2, 3} => Wrote(IsMailCmd)
          /\ Rank(wire[i]) = 4 => Wrote(IsDataCmd)
          /\ Rank(wire[i]) = 5 => Wrote(IsMessage)
    /\ LET cmds == SendCmds
       IN  /\ Len(replies) <= Len(cmds)
           /\ \A k \in 2..Len(cmds) :
                 /\ replies[1][1] = 250
                 /\ IsDataCmd(cmds[k]) =>
                       \A m \in 2..(k - 1) :
                           IsRcptCmd(cmds[m]) /\ replies[m][1] \in {250, 251}
           /\ Wrote(IsMessage) =>
                 \E k \in 1..Len(replies) : IsDataCmd(cmds[k]) /\ replies[k][1] = 354

\* a send() of a message with three recipients has written everything, "."
\* included
C1_Witness ==
    /\ mail = MailAll
    /\ Wrote(IsDotCmd)
    /\ Len(RcptCmds) = 3

(***************************************************************************)
(* C2: send() issues one RCPT TO per address of to ++ cc ++ bcc, in that   *)
(* order: never more than N, exactly N once DATA is issued; and when an    *)
(* RCPT TO is answered with a code other than 250 and 251, send() raises   *)
(* SMTPError naming that recipient, with no later RCPT TO and no DATA.     *)
(***************************************************************************)
C2_RcptPerRecipient ==
    LET expected == mail.to \o mail.cc \o mail.bcc
        n == Len(RcptCmds)
    IN  /\ n <= Len(expected)
        /\ \A i \in 1..n : RcptCmds[i].data = "RCPT TO:<" \o expected[i] \o ">\r\n"
        /\ Wrote(IsDataCmd) => n = Len(expected)
        /\ \A i \in 1..n :
              (Len(replies) >= i + 1 /\ replies[i + 1][1] \notin {250, 251}) =>
                  /\ n = i
                  /\ ~Wrote(IsDataCmd)
                  /\ ~AtReply =>
                        SendOutcome =
                            Raised(Err("SMTPError",
                                       "RCPT TO failed for " \o expected[i] \o ": "
                                       \o replies[i + 1][2]))

\* the second of three recipients was refused: two RCPT TO, then the error
C2_Witness ==
    /\ mail = MailAll
    /\ Len(RcptCmds) = 2
    /\ SendOutcome = Raised(Err("SMTPError", "RCPT TO failed for e@f.net: 550 No"))

(***************************************************************************)
(* C3: the terminating "." starts a line of the transmitted stream: what   *)
(* send() wrote just before it is the serialized message, and it ends      *)
(* with a newline.                                                         *)
(***************************************************************************)
C3_DotStartsALine ==
    \A i \in 1..Len(wire) :
        IsDotCmd(wire[i]) =>
            /\ i > 1
            /\ IsMessage(wire[i - 1])
            /\ EndsWithNewline(wire[i - 1].data)

(***************************************************************************)
(* The end-to-end scenario: the module-level send with use_tls false and   *)
(* no credentials, the message {to a@b.com, subject Hi, body hello}, and   *)
(* a peer that greets with "220-Welcome", "220 Ready" and answers          *)
(* "250 OK" to every command, DATA included; the call is over.             *)
(***************************************************************************)
ScenarioDone ==
    /\ top = "msend" /\ pc = "idle"
    /\ config = SMTPConfig("localhost", FALSE, "", "")
    /\ mail = MailPlain
    /\ stub

WireData == [i \in 1..Len(wire) |-> wire[i].data]

\* C4 as the spec states it: send() succeeds and the server sees EHLO, MAIL
\* FROM, RCPT TO, DATA, a dot-terminated body and QUIT
C4_Original ==
    ScenarioDone =>
        /\ result = Returned
        /\ Len(wire) = 7
        /\ wire[1].data = "EHLO localhost\r\n"
        /\ IsMailCmd(wire[2]) /\ IsRcptCmd(wire[3]) /\ IsDataCmd(wire[4])
        /\ IsMessage(wire[5]) /\ IsDotCmd(wire[6]) /\ IsQuitCmd(wire[7])

(***************************************************************************)
(* C4 (amended): in the end-to-end scenario DATA is answered 250, not 354, *)
(* so send() raises SMTPError "DATA failed: 250 OK", and the server sees   *)
(* exactly EHLO localhost, MAIL FROM:<>, RCPT TO:<a@b.com>, DATA and, on   *)
(* close, QUIT: no message body and no ".".                                *)
(***************************************************************************)
C4_ScenarioDataRefused ==
    ScenarioDone =>
        /\ result = Raised(Err("SMTPError", "DATA failed: 250 OK"))
        /\ WireData = <<"EHLO localhost\r\n", "MAIL FROM:<>\r\n",
                        "RCPT TO:<a@b.com>\r\n", "DATA\r\n", "QUIT\r\n">>

C4_Witness == ScenarioDone /\ Len(wire) = 5 /\ socks = <<"closed">>

(***************************************************************************)
(* C5: scoped release: when the module-level send (the with statement)     *)
(* hands control back to its caller, every socket the session connected    *)
(* has been closed (its descriptor is no longer open), also when connect() *)
(* raised inside __enter__ and when the with body raised.                  *)
(***************************************************************************)
C5_ScopedRelease ==
    (top = "msend" /\ pc = "idle") =>
        \A i \in 1..Len(socks) : ~IsOpen(socks[i])

(***************************************************************************)
(* C6: whenever close() is called on a session whose transport is open,    *)
(* the transport is eventually closed (the descriptor of the socket is no  *)
(* longer open), whatever becomes of QUIT.                                 *)
(***************************************************************************)
C6_CloseReleases ==
    (pc = "quit" /\ sock # 0 /\ IsOpen(socks[sock]))
        ~> (sock # 0 /\ socks[sock] = "closed")

(***************************************************************************)
(* C7: close() never raises and returns normally: in every state of the    *)
(* session (never connected, connected, already closed, transport broken,  *)
(* QUIT reply malformed) a call to close() eventually returns, and with no *)
(* exception.                                                              *)
(***************************************************************************)
C7_CloseReturns ==
    (top = "close" /\ pc = "quit") ~> (top = "close" /\ pc = "idle" /\ result = Returned)

\* what holds of close(): a call that ends has raised nothing, whatever QUIT
\* met, and the module-level send ends with the outcome of its with body, to
\* which the close() in __exit__ adds no error
CloseRaisesNothing ==
    /\ top = "close" => result.status # "raised"
    /\ (top = "close" /\ pc = "idle") => result = Returned
    /\ (top = "msend" /\ pc = "idle" /\ pending # NoResult) => result = pending

(***************************************************************************)
(* C8: no partial success: send() returns only after MAIL FROM, every     *)
(* RCPT TO, DATA and the terminating "." were answered and the "." got     *)
(* 250; a reply with another code than the stage expects (250; 250 or      *)
(* 251; 354; 250) makes send() raise SMTPError with the stage's message    *)
(* and the server's response text.                                         *)
(***************************************************************************)
C8_NoPartialSuccess ==
    LET rcpts == mail.to \o mail.cc \o mail.bcc
        n == Len(rcpts)
        Expected(k) ==
            IF k = 1 THEN {250}
            ELSE IF k <= n + 1 THEN {250, 251}
            ELSE IF k = n + 2 THEN {354}
            ELSE {250}
        Message(k) ==
            IF k = 1 THEN "MAIL FROM failed: "
            ELSE IF k <= n + 1 THEN "RCPT TO failed for " \o rcpts[k - 1] \o ": "
            ELSE IF k = n + 2 THEN "DATA failed: "
            ELSE "Send failed: "
    IN  /\ Len(replies) <= n + 3
        /\ SendOutcome = Returned =>
              /\ Len(replies) = n + 3
              /\ replies[n + 3][1] = 250
              /\ Wrote(IsDotCmd)
        /\ \A k \in 1..Len(replies) :
              (replies[k][1] \notin Expected(k) /\ ~AtReply) =>
                  SendOutcome = Raised(Err("SMTPError", Message(k) \o replies[k][2]))

\* the terminating "." was refused
C8_Witness == SendOutcome = Raised(Err("SMTPError", "Send failed: 550 No"))

(***************************************************************************)
(* C9: connect() writes nothing before the greeting is read, then EHLO     *)
(* localhost; iff use_tls, STARTTLS and, over TLS, EHLO localhost again;   *)
(* iff username and password are both non-empty, AUTH LOGIN, the base64    *)
(* username, the base64 password; and nothing else.  No other method       *)
(* writes a handshake command.                                             *)
(***************************************************************************)
ConnectDone ==
    \/ top = "connect" /\ pc = "idle" /\ result = Returned
    \/ top = "msend" /\ pc \in SendStages

C9_ExpectedHandshake ==
    LET Cmd(t, text) == [by |-> "command", tls |-> t, data |-> text \o "\r\n"]
        b64user == IF config.username = "u@x" THEN "dUB4" ELSE "?"
        b64pass == IF config.password = "pw" THEN "cHc=" ELSE "?"
    IN  <<Cmd(FALSE, "EHLO localhost")>>
        \o (IF config.use_tls
            THEN <<Cmd(FALSE, "STARTTLS"), Cmd(TRUE, "EHLO localhost")>>
            ELSE <<>>)
        \o (IF config.username # "" /\ config.password # ""
            THEN <<Cmd(config.use_tls, "AUTH LOGIN"),
                   Cmd(config.use_tls, b64user),
                   Cmd(config.use_tls, b64pass)>>
            ELSE <<>>)

C9_HandshakeOrder ==
    /\ Len(HandshakeCmds) <= Len(C9_ExpectedHandshake)
    /\ HandshakeCmds = SubSeq(C9_ExpectedHandshake, 1, Len(HandshakeCmds))
    /\ ConnectDone => HandshakeCmds = C9_ExpectedHandshake
    /\ pc \in {"open", "greeting"} => wire = <<>>
    /\ top \in {"send", "close"} => HandshakeCmds = <<>>

\* connect() has returned after the full handshake, TLS and AUTH included
C9_Witness ==
    /\ top = "connect" /\ pc = "idle" /\ result = Returned
    /\ Len(wire) = 6 /\ tls

(***************************************************************************)
(* C10: the handshake is unvalidated: after any well-formed reply to the   *)
(* greeting, EHLO, STARTTLS or an AUTH step, whatever its status code,     *)
(* connect() goes on to its next step or returns (Ready); connect() never  *)
(* raises SMTPError: what it raises is a transport error or the failure    *)
(* to parse a reply.                                                       *)
(***************************************************************************)
C10_HandshakeUnvalidated ==
    /\ [](/\ (top = "connect" /\ result.status = "raised") =>
                 result.err.type \in {"OSError", "TimeoutError", "ConnectionResetError",
                                       "SSLError", "ValueError", "UnicodeDecodeError"}
          /\ (result.status = "raised" /\ result.err.type = "SMTPError") =>
                 Wrote(IsMailCmd))
    /\ [][(pc \in {"greeting", "ehlo", "starttls", "ehlo2", "auth", "user", "pass"}
           /\ rd = "got") =>
             \/ pc' \in {"ehlo", "starttls", "wrap", "ehlo2", "auth", "user", "pass"}
                /\ pc' # pc
             \/ pc' = "idle" /\ result' = Returned
             \/ pc' = "mail" /\ top = "msend"]_vars

\* connect() has returned although the server answered a handshake step,
\* TLS and AUTH among them, with a code of 400 or more
C10_Witness ==
    /\ top = "connect" /\ pc = "idle" /\ result = Returned
    /\ rejected
    /\ config = SMTPConfig("localhost", TRUE, "u@x", "pw")

(***************************************************************************)
(* C11: one transport at a time: whenever a call on an SMTPClient has      *)
(* ended, the only socket of the session that may still be open is the     *)
(* one self._socket refers to: every socket the session replaced has been  *)
(* closed, so at most one is open.                                         *)
(***************************************************************************)
C11_OneTransport ==
    (usage = "raw" /\ pc = "idle") =>
        /\ \A i \in 1..Len(socks) : IsOpen(socks[i]) => i = sock
        /\ Cardinality({i \in 1..Len(socks) : IsOpen(socks[i])}) <= 1

(***************************************************************************)
(* C12: send() reuses the transport of the session: a send() call writes   *)
(* no handshake command (EHLO, STARTTLS, AUTH), the first thing it writes  *)
(* is MAIL FROM, and no step of it opens or closes a socket or changes     *)
(* self._socket, self._file or the TLS state, whatever the call before it  *)
(* was and however it ended.                                               *)
(***************************************************************************)
C12_SendReusesTransport ==
    /\ [](top = "send" =>
            /\ HandshakeCmds = <<>>
            /\ ~Wrote(IsQuitCmd)
            /\ Len(wire) > 0 => IsMailCmd(wire[1]))
    /\ [][(top = "send" /\ top' = "send") =>
            /\ sock' = sock /\ file' = file /\ tls' = tls
            /\ socks' = socks]_vars

\* connect(), a send() that was refused, then a send() on the same socket
\* that was accepted
C12_Witness ==
    /\ top = "send" /\ pc = "idle" /\ result = Returned
    /\ prev = [top |-> "send", status |-> "raised"]
    /\ calls = 3
    /\ socks = <<"connected">> /\ sock = 1 /\ file = 1

(***************************************************************************)
(* Reading a serialized message: its lines, the header lines of the top    *)
(* level (those before the first empty line) and the values of a header.   *)
(***************************************************************************)
RECURSIVE SplitLines(_)
SplitLines(s) ==
    LET i == Find(s, "\n", 1)
    IN  IF i = 0 THEN <<s>>
        ELSE <<SubSeq(s, 1, i - 1)>> \o SplitLines(SubSeq(s, i + 1, Len(s)))

TopHeaderLines(text) ==
    LET ls == SplitLines(text)
        blank == {i \in 1..Len(ls) : ls[i] = ""}
        first == IF blank = {} THEN Len(ls) + 1
                 ELSE CHOOSE i \in blank : \A j \in blank : i <= j
    IN  SubSeq(ls, 1, first - 1)

HeaderValuesOf(ls, key) ==
    LET sel == SelectSeq(ls, LAMBDA l : StartsWith(l, key \o ": "))
    IN  [i \in 1..Len(sel) |-> SubSeq(sel[i], Len(key) + 3, Len(sel[i]))]

\* _build_message(mail) has returned its string
Built == top = "build" /\ pc = "idle" /\ result.status = "returned"

ContentTypeOf(subtype) == "multipart/" \o subtype \o "; boundary=\"" \o Boundary \o "\""

(***************************************************************************)
(* C13: a message with one or more attachments, with or without html, is   *)
(* serialized as multipart/mixed, with one attachment part per attachment, *)
(* in order, each with the header Content-Disposition: attachment;         *)
(* filename=<the filename as it is>.                                       *)
(***************************************************************************)
C13_AttachmentsMixed ==
    (Built /\ Len(mail.attachments) > 0) =>
        /\ HeaderValuesOf(TopHeaderLines(result.value), "Content-Type")
              = <<ContentTypeOf("mixed")>>
        /\ HeaderValuesOf(SplitLines(result.value), "Content-Disposition")
              = [i \in 1..Len(mail.attachments) |->
                    "attachment; filename=" \o mail.attachments[i].filename]

\* 1-based index of the first sub in str at or after i, 0 if none
IndexFrom(str, sub, i) ==
    LET at == {k \in i..(Len(str) - Len(sub) + 1) :
                  SubSeq(str, k, k + Len(sub) - 1) = sub}
    IN  IF at = {} THEN 0 ELSE CHOOSE k \in at : \A j \in at : k <= j

\* where, in a serialized multipart, a part whose content is text starts its
\* content: after the blank line that ends the part's headers, up to the
\* next boundary line, line ends written as "\n"; 0 if nowhere
PartAt(serialized, text) ==
    IndexFrom(serialized, "\n\n" \o write_lines(text) \o "\n--" \o Boundary, 1)

(***************************************************************************)
(* C14: a message with non-empty html and no attachments is serialized as  *)
(* multipart/alternative whose parts are the plain body, if non-empty,     *)
(* then the html: nothing else, in that order.                             *)
(***************************************************************************)
C14_HtmlAlternative ==
    (Built /\ mail.html # "" /\ mail.attachments = <<>>) =>
        LET ls == SplitLines(result.value)
            doc == build_document(mail, config)
            expected ==
                (IF mail.body # "" THEN <<[subtype |-> "plain", text |-> mail.body]>>
                 ELSE <<>>)
                \o <<[subtype |-> "html", text |-> mail.html]>>
        IN  /\ HeaderValuesOf(TopHeaderLines(result.value), "Content-Type")
                  = <<ContentTypeOf("alternative")>>
            /\ HeaderValuesOf(ls, "Content-Type")
                  = <<ContentTypeOf("alternative")>>
                    \o [i \in 1..Len(expected) |->
                           "text/" \o expected[i].subtype \o "; charset=\"us-ascii\""]
            /\ \A i \in 1..Len(expected) :
                  /\ PartAt(result.value, expected[i].text) > 0
                  /\ i > 1 => PartAt(result.value, expected[i - 1].text)
                                 < PartAt(result.value, expected[i].text)
            /\ Len(doc.parts) = Len(expected)
            /\ \A i \in 1..Len(expected) :
                  /\ doc.parts[i].maintype = "text"
                  /\ doc.parts[i].subtype = expected[i].subtype
                  /\ doc.parts[i].payload = expected[i].text

\* a message with a plain body and html, no attachment, has been serialized
C14_Witness ==
    /\ Built
    /\ mail.html = "<b>hi</b>" /\ mail.body = "hello" /\ mail.attachments = <<>>

(***************************************************************************)
(* C15: custom headers are last-write-wins: when a key of email.headers is *)
(* one of the standard headers _build_message has set (Subject, From, To,  *)
(* Cc, Reply-To), the serialized message has exactly one header of that    *)
(* key and its value is the custom one.                                    *)
(***************************************************************************)
C15_LastWriteWins ==
    Built =>
        \A i \in 1..Len(mail.headers) :
            mail.headers[i][1] \in {"Subject", "From", "To", "Cc", "Reply-To"} =>
                HeaderValuesOf(TopHeaderLines(result.value), mail.headers[i][1])
                    = <<mail.headers[i][2]>>

(***************************************************************************)
(* The reply the server wrote, as the claims on the parser describe it:    *)
(* the lines with trailing CR and LF removed, and the place of the first   *)
(* line of 4 characters or more whose 4th character is a space (0 if there *)
(* is none), which makes the lines before it the non-final ones.           *)
(***************************************************************************)
Stripped == [i \in 1..Len(served) |-> RStripCRLF(served[i])]

EndsReply(l) == Len(l) >= 4 /\ SubSeq(l, 4, 4) = " "

ReplyEnd ==
    LET ends == {i \in 1..Len(served) : EndsReply(Stripped[i])}
    IN  IF ends = {} THEN 0 ELSE CHOOSE i \in ends : \A j \in ends : i <= j

\* C16 as the spec states it: a reply of that shape is always returned,
\* with the number its final line starts with
C16_Original ==
    LET k == ReplyEnd
        code == ParseInt(Prefix(Stripped[k], 3))
    IN  k > 0 =>
            /\ Len(inbuf) >= Len(served) - k
            /\ result.status # "raised"
            /\ rd = "got" =>
                  /\ resp = <<code.val, Join("\n", SubSeq(Stripped, 1, k))>>
                  /\ inbuf = SubSeq(served, k + 1, Len(served))

(***************************************************************************)
(* C16 (amended): for a reply of k >= 1 lines whose first k - 1 lines are  *)
(* shorter than 4 characters or have a non-space 4th character and whose   *)
(* k-th line has a space as 4th character, _read_response reads exactly    *)
(* those k lines (one line for k = 1); when the first 3 characters of the  *)
(* final line are an integer for int(), it returns that integer and the k  *)
(* lines joined with newlines; when they are not, it raises ValueError.    *)
(***************************************************************************)
C16_ResponseParser ==
    LET k == ReplyEnd
        code == ParseInt(Prefix(Stripped[k], 3))
    IN  k > 0 =>
            /\ Len(inbuf) >= Len(served) - k
            /\ rd = "got" =>
                  /\ code.ok
                  /\ resp = <<code.val, Join("\n", SubSeq(Stripped, 1, k))>>
                  /\ inbuf = SubSeq(served, k + 1, Len(served))
            /\ result.status = "raised" =>
                  /\ ~code.ok
                  /\ result.err.type = "ValueError"
                  /\ inbuf = SubSeq(served, k + 1, Len(served))

\* a reply of three lines, the first one shorter than 4 characters, has
\* been returned
C16_Witness ==
    /\ rd = "got"
    /\ ReplyEnd = 3 /\ served[1] = "ok\r\n" /\ served[2] = "250-A\r\n"
    /\ resp = <<250, "ok\n250-A\n250 OK">>

(***************************************************************************)
(* C17: every read of a server reply ends: once _read_response has been    *)
(* entered it eventually returns or raises, whatever the peer does.        *)
(***************************************************************************)
C17_ReadsEnd == (rd = "readline") ~> (rd \notin {"readline", "check"})

(***************************************************************************)
(* C18: with use_tls, AUTH LOGIN and the base64 username and password are  *)
(* written to the TLS-wrapped transport only: never to the plaintext       *)
(* connection, whatever the server answered to STARTTLS and whether or     *)
(* not the TLS handshake succeeded.                                        *)
(***************************************************************************)
IsCredential(w) ==
    /\ w.by = "command"
    /\ w.data \in {"AUTH LOGIN\r\n", "dUB4\r\n", "cHc=\r\n"}

C18_NoPlaintextCredentials ==
    config.use_tls =>
        /\ \A i \in 1..Len(wire) : IsCredential(wire[i]) => wire[i].tls
        /\ (pc \in {"auth", "user", "pass"}) => tls

\* the password has been written over TLS although the server had answered
\* a handshake command with a code of 400 or more
C18_Witness ==
    /\ config.use_tls /\ rejected
    /\ pc = "pass" /\ rd = "readline"
    /\ Len(wire) = 6
    /\ wire[6] = [by |-> "command", tls |-> TRUE, data |-> "cHc=\r\n"]

(***************************************************************************)
(* Blind copies.  The header lines of the message send() wrote, and        *)
(* whether a string holds another.                                         *)
(***************************************************************************)
Contains(str, sub) ==
    \E k \in 1..(Len(str) - Len(sub) + 1) : SubSeq(str, k, k + Len(sub) - 1) = sub

\* send() has just written the serialized message (line 163)
MessageWritten == pc = "dot" /\ rd = "send" /\ Len(wire) > 0 /\ IsMessage(wire[Len(wire)])

\* the top-level header lines of the message send() has just written
SentHeaders == TopHeaderLines(wire[Len(wire)].data)

BccGetRcpt ==
    Wrote(IsDataCmd) =>
        /\ Len(RcptCmds) = Len(mail.to) + Len(mail.cc) + Len(mail.bcc)
        /\ \A i \in 1..Len(mail.bcc) :
              RcptCmds[Len(mail.to) + Len(mail.cc) + i].data
                  = "RCPT TO:<" \o mail.bcc[i] \o ">\r\n"

\* C19 as the spec states it: a bcc address the caller put in neither to, cc
\* nor a custom header is in no header of the message
C19_Original ==
    /\ BccGetRcpt
    /\ MessageWritten =>
          LET hs == SentHeaders
          IN  \A i \in 1..Len(mail.bcc) :
                (/\ \A j \in 1..Len(mail.to) : mail.to[j] # mail.bcc[i]
                 /\ \A j \in 1..Len(mail.cc) : mail.cc[j] # mail.bcc[i]
                 /\ \A j \in 1..Len(mail.headers) :
                       ~Contains(mail.headers[j][2], mail.bcc[i]))
                => \A h \in 1..Len(hs) : ~Contains(hs[h], mail.bcc[i])

(***************************************************************************)
(* C19 (amended): bcc recipients are envelope-only: every address of       *)
(* email.bcc gets its own RCPT TO, after those of to and cc, and a bcc     *)
(* address is in no header of the message unless the caller put it in to,  *)
(* cc or a custom header, or in subject, from_addr (the configured         *)
(* username when from_addr is empty) or reply_to.                          *)
(***************************************************************************)
C19_BccEnvelopeOnly ==
    /\ BccGetRcpt
    /\ MessageWritten =>
          LET hs == SentHeaders
          IN  \A i \in 1..Len(mail.bcc) :
                (/\ \A j \in 1..Len(mail.to) : ~Contains(mail.to[j], mail.bcc[i])
                 /\ \A j \in 1..Len(mail.cc) : ~Contains(mail.cc[j], mail.bcc[i])
                 /\ \A j \in 1..Len(mail.headers) :
                       /\ ~Contains(mail.headers[j][1], mail.bcc[i])
                       /\ ~Contains(mail.headers[j][2], mail.bcc[i])
                 /\ ~Contains(mail.subject, mail.bcc[i])
                 /\ ~Contains(StrOr(mail.from_addr, config.username), mail.bcc[i])
                 /\ ~Contains(mail.reply_to, mail.bcc[i]))
                => \A h \in 1..Len(hs) : ~Contains(hs[h], mail.bcc[i])

\* the message with to, cc and bcc recipients has been written after an RCPT
\* TO for its bcc address, which none of its headers holds
C19_Witness ==
    /\ mail = MailAll
    /\ MessageWritten
    /\ RcptCmds[3].data = "RCPT TO:<z@z.io>\r\n"
    /\ \A h \in 1..Len(SentHeaders) : ~Contains(SentHeaders[h], "z@z.io")

====
